---- MODULE Spec2Model ----
(***************************************************************************)
(* Model of app/api/mcp/route.js: one MCP route handler, built by          *)
(* createMcpHandler from a setup closure that registers the tool time_now, *)
(* and exported as the GET, POST and DELETE handlers of the route.         *)
(*                                                                         *)
(* A JavaScript string is modelled as the sequence of its UTF-16 code      *)
(* units (48..57 are the digits, 46 is ".", 58 is ":", 32 is the space).   *)
(* A Date is the pair of its whole epoch seconds and its milliseconds.     *)
(*                                                                         *)
(* The system clock ranges over instants of the current period of the      *)
(* zone Europe/Istanbul: the tz database gives the zone the offset +03:00, *)
(* without transitions, from 2016-03-27T01:00:00Z on.                      *)
(***************************************************************************)
EXTENDS Integers, Sequences, FiniteSets, TLC

VARIABLES clock, tzdata, server, calls

vars == <<clock, tzdata, server, calls>>

(* ------------------------------ bounds -------------------------------- *)

\* number of callers with a request in flight at the same time
MaxCallers == 2

\* seconds the clock advances past its initial reading
MaxAdvance == 2

Callers == 1..MaxCallers

\* initial clock readings (epoch seconds): the first instant of the +03:00
\* period, 2023-02-28T20:59:59Z, 2024-01-15T10:30:00Z, 2024-02-28T20:59:59Z
\* and 2024-12-31T20:59:59Z
Anchors == {1459040400, 1677617999, 1705314600, 1709153999, 1735678799}

\* milliseconds of the initial clock reading
MsPhases == {0, 999}

HttpMethods == {"GET", "POST", "DELETE", "HEAD", "PUT"}

RpcMethods == {"tools/list", "tools/call"}

\* argument objects of a tools/call request, as their sets of keys
ArgObjects == {{}, {"city"}}

(* ------------------------- the tool's constants ----------------------- *)

ToolName == "time_now"

ToolDescription == "Returns the current time in Istanbul (Europe/Istanbul timezone)"

\* the input schema {} as the set of its properties
ToolSchema == {}

\* "Su an Istanbul saatiyle: " with U+015E (350) and U+0130 (304)
Prefix ==
  <<350, 117, 32, 97, 110, 32, 304, 115, 116, 97, 110, 98, 117, 108, 32,
    115, 97, 97, 116, 105, 121, 108, 101, 58, 32>>

Locale == "tr-TR"

\* variants of the options: no timeZone (the host's zone, UTC), a two-digit
\* year, no second
OptionsUtc ==
  [timeZone |-> "UTC", hour |-> "2-digit", minute |-> "2-digit",
   second |-> "2-digit", day |-> "2-digit", month |-> "2-digit",
   year |-> "numeric"]

OptionsShortYear ==
  [timeZone |-> "Europe/Istanbul", hour |-> "2-digit", minute |-> "2-digit",
   second |-> "2-digit", day |-> "2-digit", month |-> "2-digit",
   year |-> "2-digit"]

OptionsNoSecond ==
  [timeZone |-> "Europe/Istanbul", hour |-> "2-digit", minute |-> "2-digit",
   second |-> "absent", day |-> "2-digit", month |-> "2-digit",
   year |-> "numeric"]

Options ==
  [timeZone |-> "Europe/Istanbul", hour |-> "2-digit", minute |-> "2-digit",
   second |-> "2-digit", day |-> "2-digit", month |-> "2-digit",
   year |-> "numeric"]

(* --------------------------- Date formatting --------------------------- *)

\* offset of a zone from UTC in seconds, for the instants of the model
UtcOffset(timeZone) ==
  IF timeZone = "Europe/Istanbul" THEN 3 * 3600 ELSE 0

\* proleptic Gregorian date of a day number counted from 1970-01-01
CivilFromDays(days) ==
  LET z   == days + 719468
      era == z \div 146097
      doe == z - era * 146097
      yoe == (doe - doe \div 1460 + doe \div 36524 - doe \div 146096) \div 365
      doy == doe - (365 * yoe + yoe \div 4 - yoe \div 100)
      mp  == (5 * doy + 2) \div 153
      m   == IF mp < 10 THEN mp + 3 ELSE mp - 9
  IN  [year  |-> yoe + era * 400 + (IF m <= 2 THEN 1 ELSE 0),
       month |-> m,
       day   |-> doy - (153 * mp + 2) \div 5 + 1]

\* the calendar fields of a Date in a zone
DateFields(date, timeZone) ==
  LET local == date.s + UtcOffset(timeZone)
      civil == CivilFromDays(local \div 86400)
      sod   == local % 86400
  IN  [year |-> civil.year, month |-> civil.month, day |-> civil.day,
       hour |-> sod \div 3600, minute |-> (sod % 3600) \div 60,
       second |-> sod % 60]

RECURSIVE Digits(_)
Digits(n) ==
  IF n < 10 THEN <<48 + n>> ELSE Digits(n \div 10) \o <<48 + (n % 10)>>

\* one field of a formatted date: "2-digit" keeps the last two digits and
\* pads, "numeric" prints the number, an absent option prints nothing
FormatField(style, n) ==
  IF style = "2-digit" THEN <<48 + ((n % 100) \div 10), 48 + (n % 10)>>
  ELSE IF style = "numeric" THEN Digits(n)
  ELSE <<>>

\* Date.prototype.toLocaleString for the locale tr-TR: day.month.year, a
\* space, hour:minute:second on the 24-hour clock
ToLocaleString(date, locale, options) ==
  LET f == DateFields(date, options.timeZone)
  IN  FormatField(options.day, f.day) \o <<46>>
        \o FormatField(options.month, f.month) \o <<46>>
        \o FormatField(options.year, f.year) \o <<32>>
        \o FormatField(options.hour, f.hour) \o <<58>>
        \o FormatField(options.minute, f.minute)
        \o (IF options.second = "absent" THEN <<>>
            ELSE <<58>> \o FormatField(options.second, f.second))

(* ------------------------------ the tool ------------------------------- *)

\* variant: the clock is read once, when the module is loaded
NewDateAtLoad ==
  [s |-> CHOOSE a \in Anchors : a <= clock.s /\ clock.s - a <= MaxAdvance + 1,
   ms |-> 0]

\* new Date(): the clock reading at the moment of the call
NewDate == clock

\* variant: the text is left out of the content
ToolResultNoBlock(text) == [content |-> <<>>]

\* the object the callback returns
ToolResult(text) == [content |-> <<[type |-> "text", text |-> text]>>]

\* the value of the callback for a clock reading
TimeNowCallback(now) ==
  ToolResult(Prefix \o ToLocaleString(now, Locale, Options))

NoResult == [content |-> <<>>]

NoDate == [s |-> 0, ms |-> 0]

IdleCall ==
  [pc |-> "idle", method |-> "", handler |-> "", rpc |-> "", args |-> {},
   now |-> NoDate, outcome |-> "pending", result |-> NoResult]

(* ------------------------- registration, routing ----------------------- *)

NewMcpServer == [created |-> TRUE, tools |-> {}]

\* server.tool(name, description, schema, callback)
ServerTool(srv, name, description, schema) ==
  [srv EXCEPT !.tools = @ \cup
     {[name |-> name, description |-> description, inputSchema |-> schema]}]

\* variant: the closure registers a second tool
SetupClosureTwoTools(srv) ==
  ServerTool(ServerTool(srv, ToolName, ToolDescription, ToolSchema),
             "time_now_2", ToolDescription, ToolSchema)

\* the closure given to createMcpHandler
SetupClosure(srv) == ServerTool(srv, ToolName, ToolDescription, ToolSchema)

\* const handler = createMcpHandler(closure, {}, {basePath: '/api'})
Handler == [id |-> "handler", serverOptions |-> {}, basePath |-> "/api"]

\* variant: the handler is exported as PUT too
RouteExportsWithPut ==
  [m \in {"GET", "POST", "DELETE", "PUT"} |-> Handler]

\* export {handler as GET, handler as POST, handler as DELETE}
RouteExports == [m \in {"GET", "POST", "DELETE"} |-> Handler]

\* the methods the framework serves with an export of the route module: the
\* exported ones, and HEAD through the GET export when HEAD is not exported
AutoImplementMethods(exports) ==
  IF "GET" \in DOMAIN exports /\ "HEAD" \notin DOMAIN exports
  THEN [m \in DOMAIN exports \cup {"HEAD"} |->
          IF m = "HEAD" THEN exports["GET"] ELSE exports[m]]
  ELSE exports

(* ------------------------------- actions ------------------------------- *)

Init ==
  /\ clock \in [s : Anchors, ms : MsPhases]
  /\ tzdata \in BOOLEAN
  /\ server = [created |-> FALSE, tools |-> {}]
  /\ calls = [c \in Callers |-> IdleCall]

\* the system clock advances by a second
Tick ==
  /\ \E a \in Anchors : a <= clock.s /\ clock.s - a < MaxAdvance
  /\ clock' = [clock EXCEPT !.s = @ + 1]
  /\ UNCHANGED <<tzdata, server, calls>>

\* the handler creates a server and runs the setup closure on it
InitializeServer ==
  /\ server' = SetupClosure(NewMcpServer)
  /\ UNCHANGED <<clock, tzdata, calls>>

\* an HTTP request arrives at the route: the framework calls the export
\* that serves the request's method, and answers 405 when there is none
\* (a tools/list request carries no arguments)
HttpRequest(c, m, rpc, args) ==
  /\ calls[c].pc = "idle"
  /\ rpc = "tools/list" => args = {}
  /\ calls' = [calls EXCEPT ![c] =
       IF m \in DOMAIN AutoImplementMethods(RouteExports)
       THEN [IdleCall EXCEPT !.pc = "routed", !.method = m,
               !.handler = AutoImplementMethods(RouteExports)[m].id,
               !.rpc = rpc, !.args = args]
       ELSE [IdleCall EXCEPT !.pc = "status405", !.method = m]]
  /\ UNCHANGED <<clock, tzdata, server>>

\* the handler looks at the request it was called with: a tools/list is
\* answered from the registry, a tools/call of time_now is validated and,
\* when accepted, the callback is about to be called. Whether the hosting
\* library refuses a request that POST does not carry, or a non-empty
\* argument object, is the library's choice.
Dispatch(c) ==
  /\ calls[c].pc = "routed"
  /\ server.created
  /\ \E t \in server.tools : t.name = ToolName
  /\ \E accepts \in BOOLEAN :
       calls' = [calls EXCEPT ![c] =
         IF ~accepts /\ (calls[c].method # "POST" \/ calls[c].args # {})
         THEN [IdleCall EXCEPT !.pc = "invalid"]
         ELSE IF calls[c].rpc = "tools/list"
         THEN [IdleCall EXCEPT !.pc = "listed"]
         ELSE [IdleCall EXCEPT !.pc = "dispatched", !.args = calls[c].args]]
  /\ UNCHANGED <<clock, tzdata, server>>

\* variant: the result object is shared by the invocations
time_nowSharedResult(c) ==
  /\ calls[c].pc = "dispatched"
  /\ calls' = [d \in Callers |->
       IF d = c
       THEN [calls[c] EXCEPT !.pc = "settled", !.now = NewDate,
               !.outcome = "fulfilled", !.result = TimeNowCallback(NewDate)]
       ELSE IF calls[d].pc = "settled" /\ calls[d].outcome = "fulfilled"
       THEN [calls[d] EXCEPT !.result = TimeNowCallback(NewDate)]
       ELSE calls[d]]
  /\ UNCHANGED <<clock, tzdata, server>>

\* variant: the callback awaits the other callers' invocations
time_nowAwaitsOthers(c) ==
  /\ calls[c].pc = "dispatched"
  /\ \A d \in Callers \ {c} : calls[d].pc = "settled"
  /\ calls' = [calls EXCEPT ![c] =
       [@ EXCEPT !.pc = "settled", !.now = NewDate,
          !.outcome = "fulfilled", !.result = TimeNowCallback(NewDate)]]
  /\ UNCHANGED <<clock, tzdata, server>>

\* the callback of time_now: it has no await, so it runs to its return in
\* one step. toLocaleString throws a RangeError when the zone is unknown
\* to the runtime, and the promise is then rejected.
time_now(c) ==
  /\ calls[c].pc = "dispatched"
  /\ calls' = [calls EXCEPT ![c] =
       IF tzdata
       THEN [@ EXCEPT !.pc = "settled", !.now = NewDate,
               !.outcome = "fulfilled", !.result = TimeNowCallback(NewDate)]
       ELSE [@ EXCEPT !.pc = "settled", !.now = NewDate,
               !.outcome = "rejected"]]
  /\ UNCHANGED <<clock, tzdata, server>>

\* the response is sent and the request's data is dropped
Respond(c) ==
  /\ calls[c].pc \in {"status405", "listed", "invalid", "settled"}
  /\ calls' = [calls EXCEPT ![c] = IdleCall]
  /\ UNCHANGED <<clock, tzdata, server>>

Next ==
  \/ Tick
  \/ InitializeServer
  \/ \E c \in Callers, m \in HttpMethods, rpc \in RpcMethods,
        args \in ArgObjects : HttpRequest(c, m, rpc, args)
  \/ \E c \in Callers : Dispatch(c)
  \/ \E c \in Callers : time_now(c)
  \/ \E c \in Callers : Respond(c)

Spec == Init /\ [][Next]_vars

\* the route started at 2024-01-15T10:30:00.999Z
InitAtExample == Init /\ clock = [s |-> 1705314600, ms |-> 999]

\* the callers only invoke the tool, as the README does: POST, tools/call,
\* no arguments
NextInvocations ==
  \/ Tick
  \/ InitializeServer
  \/ \E c \in Callers : HttpRequest(c, "POST", "tools/call", {})
  \/ \E c \in Callers : Dispatch(c)
  \/ \E c \in Callers : time_now(c)
  \/ \E c \in Callers : Respond(c)

\* the event loop runs a callback that has been called
FairSpec ==
  /\ InitAtExample
  /\ [][NextInvocations]_vars
  /\ \A c \in Callers : WF_vars(time_now(c))

(* ------------------------- reading a result back ----------------------- *)

\* the invocation of caller c has returned a ToolInvocationResult
Returned(c) == calls[c].pc = "settled" /\ calls[c].outcome = "fulfilled"

TextOf(c) == calls[c].result.content[1].text

IsDigit(u) == u \in 48..57

Num2(text, i) == (text[i] - 48) * 10 + (text[i + 1] - 48)

Num4(text, i) == Num2(text, i) * 100 + Num2(text, i + 2)

\* day number, counted from 1970-01-01, of a proleptic Gregorian date
DaysFromCivil(y, m, d) ==
  LET yy  == IF m <= 2 THEN y - 1 ELSE y
      era == yy \div 400
      yoe == yy - era * 400
      mp  == IF m > 2 THEN m - 3 ELSE m + 9
      doy == (153 * mp + 2) \div 5 + d - 1
      doe == yoe * 365 + yoe \div 4 - yoe \div 100 + doy
  IN  era * 146097 + doe - 719468

IsLeap(y) == y % 4 = 0 /\ (y % 100 # 0 \/ y % 400 = 0)

DaysInMonth(y, m) ==
  IF m = 2 THEN (IF IsLeap(y) THEN 29 ELSE 28)
  ELSE IF m \in {4, 6, 9, 11} THEN 30 ELSE 31

\* the text has the shape <25 code units>DD.MM.YYYY HH:MM:SS
HasTimestampShape(text) ==
  /\ Len(text) = 44
  /\ \A i \in {26, 27, 29, 30, 32, 33, 34, 35, 37, 38, 40, 41, 43, 44} :
       IsDigit(text[i])
  /\ text[28] = 46 /\ text[31] = 46 /\ text[36] = 32
  /\ text[39] = 58 /\ text[42] = 58

\* the fields of a text of that shape, read in the order day, month, year,
\* hour, minute, second
ParseTimestamp(text) ==
  [day |-> Num2(text, 26), month |-> Num2(text, 29), year |-> Num4(text, 32),
   hour |-> Num2(text, 37), minute |-> Num2(text, 40),
   second |-> Num2(text, 43)]

\* the fields name a date of the calendar and a time of the 24-hour clock
IsCalendarTime(p) ==
  /\ p.month \in 1..12
  /\ p.day \in 1..DaysInMonth(p.year, p.month)
  /\ p.hour \in 0..23 /\ p.minute \in 0..59 /\ p.second \in 0..59

\* the epoch second the fields name when read at the offset UTC+3
EpochAtUtcPlus3(p) ==
  DaysFromCivil(p.year, p.month, p.day) * 86400
    + p.hour * 3600 + p.minute * 60 + p.second - 3 * 3600

Contains(text, sub) ==
  \E i \in 1..(Len(text) - Len(sub) + 1) :
    SubSeq(text, i, i + Len(sub) - 1) = sub

\* the later reading is at least one second after the earlier one
SecondApart(a, b) ==
  \/ b.s - a.s >= 2
  \/ b.s - a.s = 1 /\ b.ms >= a.ms

AtLeastOneSecondApart(a, b) == SecondApart(a, b) \/ SecondApart(b, a)

\* the clock readings the model draws invocations from
SampledReadings ==
  {[s |-> a + k, ms |-> m] : a \in Anchors, k \in 0..MaxAdvance, m \in MsPhases}

\* the text the callback returns at each of them
SampledTexts ==
  [r \in SampledReadings |-> TimeNowCallback(r).content[1].text]

\* "Su an Istanbul saatiyle: "
ExpectedPrefix ==
  <<350, 117, 32, 97, 110, 32, 304, 115, 116, 97, 110, 98, 117, 108, 32,
    115, 97, 97, 116, 105, 121, 108, 101, 58, 32>>

(* ------------------------------- claims -------------------------------- *)

\* C1: every result returned by an invocation of time_now with no arguments,
\* at any clock reading, has a content sequence of exactly one block, and
\* the type of that block is "text".
C1_OneTextBlock ==
  \A c \in Callers :
    Returned(c) /\ calls[c].args = {} =>
      /\ Len(calls[c].result.content) = 1
      /\ calls[c].result.content[1].type = "text"

C1_Witness ==
  \E c \in Callers :
    /\ Returned(c) /\ calls[c].args = {}
    /\ calls[c].now.s \notin Anchors

\* C2: the text of the returned block is the instant of the invocation
\* converted to UTC+3: its fields name a calendar date and a time whose epoch
\* second at UTC+3 is the second of the clock reading, with the carry into
\* day, month and year when the three hours cross midnight; an invocation at
\* 2024-01-15T10:30:00Z yields a text containing "15.01.2024" and "13:30:00".
C2_IstanbulTime ==
  \A c \in Callers :
    Returned(c) =>
      /\ HasTimestampShape(TextOf(c))
      /\ IsCalendarTime(ParseTimestamp(TextOf(c)))
      /\ EpochAtUtcPlus3(ParseTimestamp(TextOf(c))) = calls[c].now.s
      /\ calls[c].now.s = 1705314600 =>
           /\ Contains(TextOf(c), <<49, 53, 46, 48, 49, 46, 50, 48, 50, 52>>)
           /\ Contains(TextOf(c), <<49, 51, 58, 51, 48, 58, 48, 48>>)
      \* 2024-12-31T21:00:00Z is 01.01.2025 00:00:00
      /\ calls[c].now.s = 1735678800 =>
           Contains(TextOf(c), <<48, 49, 46, 48, 49, 46, 50, 48, 50, 53, 32,
                                 48, 48, 58, 48, 48, 58, 48, 48>>)
      \* 2024-02-28T21:00:00Z is 29.02.2024 00:00:00
      /\ calls[c].now.s = 1709154000 =>
           Contains(TextOf(c), <<50, 57, 46, 48, 50, 46, 50, 48, 50, 52, 32,
                                 48, 48, 58, 48, 48, 58, 48, 48>>)
      \* 2023-02-28T21:00:00Z is 01.03.2023 00:00:00
      /\ calls[c].now.s = 1677618000 =>
           Contains(TextOf(c), <<48, 49, 46, 48, 51, 46, 50, 48, 50, 51, 32,
                                 48, 48, 58, 48, 48, 58, 48, 48>>)

\* an invocation at 2024-12-31T21:00:00Z: the carry reaches the year
C2_Witness ==
  \E c, d \in Callers :
    /\ Returned(c) /\ calls[c].now.s = 1735678800
    /\ Returned(d) /\ calls[d].now.s = 1735678799
    /\ ParseTimestamp(TextOf(c)).year = 2025
    /\ ParseTimestamp(TextOf(d)).year = 2024

\* C3: the returned text is the fixed prefix followed by DD.MM.YYYY HH:MM:SS:
\* day, month, hour, minute and second of two digits each and the year of
\* four, in the order day, month, year, hour, minute, second.
C3_PrefixAndPattern ==
  \A c \in Callers :
    Returned(c) =>
      /\ HasTimestampShape(TextOf(c))
      /\ SubSeq(TextOf(c), 1, 25) = ExpectedPrefix
      /\ IsCalendarTime(ParseTimestamp(TextOf(c)))
      /\ EpochAtUtcPlus3(ParseTimestamp(TextOf(c))) = calls[c].now.s

\* a text whose day and hour are padded: 01.03.2023 00:00:00
C3_Witness ==
  \E c \in Callers :
    /\ Returned(c)
    /\ ParseTimestamp(TextOf(c)).day = 1
    /\ ParseTimestamp(TextOf(c)).month = 3
    /\ ParseTimestamp(TextOf(c)).hour = 0

\* C5: two invocations whose clock readings are at least one second apart
\* return different texts; the text of an invocation also differs from the
\* text of an invocation at any other sampled reading a second or more away.
C5_DistinctTexts ==
  \A c \in Callers :
    Returned(c) =>
      /\ \A d \in Callers :
           Returned(d) /\ AtLeastOneSecondApart(calls[c].now, calls[d].now)
             => TextOf(c) # TextOf(d)
      /\ \A r \in SampledReadings :
           AtLeastOneSecondApart(calls[c].now, r) => TextOf(c) # SampledTexts[r]

\* two returned invocations whose readings are exactly one second apart
C5_Witness ==
  \E c, d \in Callers :
    /\ Returned(c) /\ Returned(d)
    /\ calls[d].now.s = calls[c].now.s + 1
    /\ calls[d].now.ms = calls[c].now.ms
    /\ TextOf(c) # TextOf(d)

\* C6: the timestamp an invocation returns, read at UTC+3, is within two
\* seconds of the clock at the step in which the callback runs, for every
\* invocation of every sequence of invocations.
C6_ReadsClockAtInvocation ==
  [][\A c \in Callers :
       (calls[c].pc = "dispatched" /\ Returned(c)') =>
         LET text   == calls'[c].result.content[1].text
             parsed == EpochAtUtcPlus3(ParseTimestamp(text))
             diffMs == (clock.s - parsed) * 1000 + clock.ms
         IN  /\ HasTimestampShape(text)
             /\ clock.s - parsed \in -2..2
             /\ diffMs \in -2000..2000]_vars

\* a second invocation returned two seconds after an earlier one
C6_Witness ==
  \E c, d \in Callers :
    /\ Returned(c) /\ Returned(d)
    /\ calls[d].now.s = calls[c].now.s + 2
    /\ calls[d].now.ms = 999
    /\ EpochAtUtcPlus3(ParseTimestamp(TextOf(d))) = calls[d].now.s

\* C7: whatever the interleaving of the callers, the step in which the
\* callback runs for one caller changes nothing but that caller's own
\* invocation (not the registry, the clock, the environment or another
\* caller's invocation), and its result is the result of the callback run on
\* its own clock reading.
C7_NoSharedState ==
  [][\A c \in Callers :
       (calls[c].pc = "dispatched" /\ calls'[c].pc = "settled") =>
         /\ server' = server /\ clock' = clock /\ tzdata' = tzdata
         /\ \A d \in Callers \ {c} : calls'[d] = calls[d]
         /\ calls'[c].now = clock
         /\ calls'[c].outcome = "fulfilled" =>
              calls'[c].result = TimeNowCallback(clock)]_vars

\* an invocation returned while another caller's earlier result is pending
C7_Witness ==
  \E c, d \in Callers :
    /\ c # d /\ Returned(c) /\ Returned(d)
    /\ calls[c].now.s < calls[d].now.s
    /\ calls[c].result # calls[d].result

\* C8: an invocation whose callback is about to be called always completes;
\* the callback is ready to run whenever it has been called, whatever the
\* other callers do; and with the zone data available it completes with a
\* ToolInvocationResult, never with an error.
C8_CompletesWithoutError ==
  /\ \A c \in Callers :
       (calls[c].pc = "dispatched") ~> (calls[c].pc = "settled")
  /\ [](\A c \in Callers :
          calls[c].pc = "dispatched" => ENABLED time_now(c))
  /\ [](\A c \in Callers :
          calls[c].pc = "settled" /\ tzdata =>
            /\ calls[c].outcome = "fulfilled"
            /\ Len(calls[c].result.content) = 1)

\* a completed invocation beside one that has not yet run
C8_Witness ==
  \E c, d \in Callers :
    /\ tzdata
    /\ calls[c].pc = "settled" /\ calls[c].outcome = "fulfilled"
    /\ calls[d].pc = "dispatched"

\* C9: once the setup closure has run, and after any sequence of requests,
\* the registry holds exactly one tool, named "time_now", with the fixed
\* description and the empty input schema; before, it holds none.
C9_OneTool ==
  /\ ~server.created => server.tools = {}
  /\ server.created =>
       /\ server.tools =
            {[name |-> "time_now",
              description |->
                "Returns the current time in Istanbul (Europe/Istanbul timezone)",
              inputSchema |-> {}]}
       /\ Cardinality(server.tools) = 1
       /\ Cardinality({t \in server.tools : t.name = "time_now"}) = 1

\* the registry after a tools/list and a tools/call have been served
C9_Witness ==
  /\ server.created
  /\ \E c, d \in Callers :
       calls[c].pc = "listed" /\ calls[d].pc = "settled"

====
